---- MODULE Spec2Model ----
(***************************************************************************)
(* VLAN IP allocator (scripts/06-rest-api.py): the etcd-backed /allocate   *)
(* and /release handlers, the Linode inventory fetch with its cache, the   *)
(* etcd endpoint selection, the retry loop of the cloud calls, the helpers *)
(* normalize_ip and reserved_set and the refresh detail endpoint, as a     *)
(* state machine; and the older SQLite-backed service                      *)
(* (scripts/06-rest-api-new.py) with its /allocate-ip, /release and        *)
(* /vlan-attachment handlers.                                              *)
(*                                                                         *)
(* Texts (subnet inputs, etcd keys below "/vlan/ip/", ipam addresses) are   *)
(* sequences of tokens: a dotted quad is one token <<"ip", a>> with a the  *)
(* 32-bit value of the address, a decimal number is <<"num", n>>, and "/"  *)
(* and " " are tokens of their own, so that strip and split act on them.   *)
(***************************************************************************)
EXTENDS Integers, Sequences, FiniteSets, TLC

(* ------------------------------ bounds -------------------------------- *)

\* number of request handlers that may run in parallel
NumProcs == 2

\* number of requests the handlers start in one behaviour
MaxOps == 2

\* number of etcd endpoints listed in ETCD_ENDPOINTS
NumEndpoints == 1

\* the same in the deployments that list several endpoints
ManyEndpoints == 2

\* last value of the wall clock (seconds)
MaxClock == 1

\* HTTP calls of one inventory walk that may fail
MaxFails == 1

\* largest `retries` argument of api_request_with_retry
MaxRetries == 3

\* longest text, in tokens, handed to normalize_ip on its own
MaxLen == 5

\* longest list of conditions in the status of a refresh job
MaxConditions == 2

\* number of requests the SQLite-backed service answers in one behaviour
SqlMaxOps == 3

(* ------------------------------ texts --------------------------------- *)

IpTok(a) == <<"ip", a>>

NumTok(n) == <<"num", n>>

SLASH == <<"/", 0>>

SPACE == <<" ", 0>>

WORD == <<"word", 0>>

SetMin(S) == CHOOSE x \in S : \A y \in S : x <= y

SetMax(S) == CHOOSE x \in S : \A y \in S : x >= y

\* str.strip()
strip(s) ==
    LET idx == {i \in 1..Len(s) : s[i] # SPACE}
    IN  IF idx = {} THEN <<>> ELSE SubSeq(s, SetMin(idx), SetMax(idx))

\* s.split("/", 1)[0]
split_first(s) ==
    LET sl == {i \in 1..Len(s) : s[i] = SLASH}
    IN  IF sl = {} THEN s ELSE SubSeq(s, 1, SetMin(sl) - 1)

\* a normalisation that keeps the "/<prefix>" suffix
normalize_ip_strip_only(s) == strip(s)

\* a normalisation without the strip() that follows the split
normalize_ip_no_second_strip(s) ==
    IF s = <<>> THEN <<>> ELSE split_first(strip(s))

normalize_ip(s) ==
    IF s = <<>> THEN <<>> ELSE strip(split_first(strip(s)))

\* 10.0.0.0 as a 32-bit value
TenNet == 10 * (2 ^ 24)

\* str(ipaddress.IPv4Address(a))
IpStr(a) == <<IpTok(a)>>

\* the text "<a>/<p>"
CidrStr(a, p) == <<IpTok(a), SLASH, NumTok(p)>>

(* ---------------------- ipaddress.ip_network -------------------------- *)

NoNet == [ok |-> FALSE, net |-> 0, prefixlen |-> 0]

\* ipaddress.ip_network(text, strict=False): host bits are masked off; a bare
\* address is a /32; anything else raises ValueError (ok = FALSE)
ip_network(text) ==
    IF Len(text) = 1 /\ text[1][1] = "ip"
    THEN [ok |-> TRUE, net |-> text[1][2], prefixlen |-> 32]
    ELSE IF /\ Len(text) = 3
            /\ text[1][1] = "ip"
            /\ text[2] = SLASH
            /\ text[3][1] = "num"
            /\ text[3][2] \in 8..32
         THEN [ok |-> TRUE,
               net |-> text[1][2] - (text[1][2] % (2 ^ (32 - text[3][2]))),
               prefixlen |-> text[3][2]]
         ELSE NoNet

network_address(n) == n.net

broadcast_address(n) == n.net + (2 ^ (32 - n.prefixlen)) - 1

\* str(ip_net)
NetStr(n) == CidrStr(n.net, n.prefixlen)

\* ip_net.hosts(), iterated in ascending order
hosts(n) ==
    IF n.prefixlen >= 31
    THEN network_address(n)..broadcast_address(n)
    ELSE (network_address(n) + 1)..(broadcast_address(n) - 1)

\* a policy that forgets the gateway slot
reserved_set_no_gateway(n) ==
    {IpStr(network_address(n)), IpStr(broadcast_address(n))}

\* a policy that takes network + 1 for the gateway whatever the prefix
reserved_set_gateway_always(n) ==
    {IpStr(network_address(n)), IpStr(broadcast_address(n)),
     IpStr(network_address(n) + 1)}

reserved_set(n) ==
    {IpStr(network_address(n)), IpStr(broadcast_address(n))}
        \cup (IF hosts(n) # {} THEN {IpStr(SetMin(hosts(n)))} ELSE {})

(* ------------------------- Linode inventory --------------------------- *)

Iface(purpose, ipam) == [purpose |-> purpose, ipam_address |-> ipam]

Config(id, interfaces) == [id |-> id, interfaces |-> interfaces]

Linode(id, configs) == [id |-> id, configs |-> configs]

\* an account with no instance in REGION: one empty page
InvEmpty == << <<>> >>

\* two pages of one instance each; 10.0.0.2 and 10.0.0.5 are VLAN addresses
InvVlan ==
    << << Linode(1, << Config(1, << Iface("public", <<>>),
                                   Iface("vlan", CidrStr(TenNet + 2, 28)) >>) >>) >>,
       << Linode(2, << Config(1, << Iface("vlan", CidrStr(TenNet + 5, 28)) >>) >>) >> >>

Inventories == {InvEmpty, InvVlan}

\* three pages of one instance each
InvPaged ==
    InvVlan \o
       << << Linode(3, << Config(1, << Iface("vlan", CidrStr(TenNet + 6, 28)) >>) >>) >> >>

\* the VLAN addresses bound at the cloud provider, as bare texts
CloudBound(inv) ==
    {normalize_ip(inv[pg][l].configs[c].interfaces[i].ipam_address) :
        <<pg, l, c, i>> \in
            {q \in (1..Len(inv)) \X (1..2) \X (1..2) \X (1..2) :
                /\ q[2] <= Len(inv[q[1]])
                /\ q[3] <= Len(inv[q[1]][q[2]].configs)
                /\ q[4] <= Len(inv[q[1]][q[2]].configs[q[3]].interfaces)
                /\ inv[q[1]][q[2]].configs[q[3]].interfaces[q[4]].purpose = "vlan"}}

\* the HTTP calls of one inventory walk; api_request_with_retry answers None
\* for the calls in `fails`
PageCall(page) == <<"instances", page, 0>>

ConfigsCall(linode_id) == <<"configs", linode_id, 0>>

ConfigViewCall(linode_id, cid) == <<"config", linode_id, cid>>

HttpCalls(inv) ==
    {PageCall(pg) : pg \in 1..Len(inv)}
        \cup {ConfigsCall(inv[q[1]][q[2]].id) :
                q \in {r \in (1..Len(inv)) \X (1..2) : r[2] <= Len(inv[r[1]])}}
        \cup {ConfigViewCall(inv[q[1]][q[2]].id, inv[q[1]][q[2]].configs[q[3]].id) :
                q \in {r \in (1..Len(inv)) \X (1..2) \X (1..2) :
                        /\ r[2] <= Len(inv[r[1]])
                        /\ r[3] <= Len(inv[r[1]][r[2]].configs)}}

RECURSIVE IfaceIps(_)
\* lines 346-353: the normalized ipam_address of every vlan interface
IfaceIps(ifaces) ==
    IF ifaces = <<>> THEN <<>>
    ELSE LET iface == Head(ifaces)
             ip == normalize_ip(iface.ipam_address)
         IN  (IF iface.purpose = "vlan" /\ iface.ipam_address # <<>> /\ ip # <<>>
              THEN <<ip>> ELSE <<>>) \o IfaceIps(Tail(ifaces))

\* what a part of the walk yields: the addresses appended to vlan_ips and the
\* HTTP calls issued, in order
Walked(ips, calls) == [ips |-> ips, calls |-> calls]

RECURSIVE ConfigIps(_, _, _)
\* lines 336-353: a config whose detail call fails is skipped
ConfigIps(linode_id, configs, fails) ==
    IF configs = <<>> THEN Walked(<<>>, <<>>)
    ELSE LET c == Head(configs)
             call == ConfigViewCall(linode_id, c.id)
             rest == ConfigIps(linode_id, Tail(configs), fails)
         IN  Walked((IF call \in fails THEN <<>> ELSE IfaceIps(c.interfaces))
                        \o rest.ips,
                    <<call>> \o rest.calls)

RECURSIVE LinodeIps(_, _)
\* lines 326-353: an instance whose config list call fails is skipped
LinodeIps(linodes, fails) ==
    IF linodes = <<>> THEN Walked(<<>>, <<>>)
    ELSE LET l == Head(linodes)
             call == ConfigsCall(l.id)
             here == IF call \in fails THEN Walked(<<>>, <<>>)
                     ELSE ConfigIps(l.id, l.configs, fails)
             rest == LinodeIps(Tail(linodes), fails)
         IN  Walked(here.ips \o rest.ips, <<call>> \o here.calls \o rest.calls)

\* a loop that never reads "pages" of page 1 and keeps total_pages at 1
PageLoopFirstPageOnly(inv, page, total_pages, fails) ==
    IF PageCall(1) \in fails THEN Walked(<<>>, <<PageCall(1)>>)
    ELSE LET here == LinodeIps(inv[1], fails)
         IN  Walked(here.ips, <<PageCall(1)>> \o here.calls)

RECURSIVE PageLoop(_, _, _, _)
\* lines 315-355: while page <= total_pages; a failed page breaks the loop;
\* total_pages is response.get("pages", 1) of page 1
PageLoop(inv, page, total_pages, fails) ==
    IF page > total_pages THEN Walked(<<>>, <<>>)
    ELSE IF PageCall(page) \in fails THEN Walked(<<>>, <<PageCall(page)>>)
    ELSE LET here == LinodeIps(inv[page], fails)
             rest == PageLoop(inv, page + 1,
                              IF page = 1 THEN Len(inv) ELSE total_pages, fails)
         IN  Walked(here.ips \o rest.ips,
                    <<PageCall(page)>> \o here.calls \o rest.calls)

\* VLAN_IP_CACHE: has = "ips and timestamp are not None"
EmptyCache(ttl) == [has |-> FALSE, ips |-> <<>>, timestamp |-> 0, ttl_seconds |-> ttl]

\* a test that still serves the cache when exactly ttl_seconds have passed
CacheFreshInclusive(cache, clock) ==
    cache.has /\ (clock - cache.timestamp) <= cache.ttl_seconds

\* lines 290-292
CacheFresh(cache, clock) ==
    cache.has /\ (clock - cache.timestamp) < cache.ttl_seconds

\* fetch_assigned_ips(): the list returned, the HTTP calls issued and the
\* cache it leaves
fetch_assigned_ips(cache, clock, inv, token_ok, fails) ==
    IF CacheFresh(cache, clock)
    THEN [ips |-> cache.ips, calls |-> <<>>, cache |-> cache]
    ELSE IF ~token_ok
    THEN [ips |-> <<>>, calls |-> <<>>, cache |-> cache]
    ELSE LET walk == PageLoop(inv, 1, 1, fails)
         IN  [ips |-> walk.ips, calls |-> walk.calls,
              cache |-> [cache EXCEPT !.has = TRUE, !.ips = walk.ips,
                                      !.timestamp = clock]]

\* how the fetch ended: served from the cache, a complete walk, or a walk
\* without credential or with a failed call (every call of `fails` is one
\* the walk makes or one behind an earlier failed call)
FetchOutcome(cache, clock, token_ok, fails) ==
    IF CacheFresh(cache, clock) THEN "cached"
    ELSE IF ~token_ok \/ fails # {} THEN "failed"
    ELSE "complete"

\* the sets of calls that fail in one walk
FailSets(inv) == {f \in SUBSET HttpCalls(inv) : Cardinality(f) <= MaxFails}

\* no call of fetch_assigned_ips made yet
NoFetch ==
    [outcome |-> "none", before |-> EmptyCache(0), at |-> 0, inv |-> InvEmpty,
     token_ok |-> FALSE, fails |-> {}, ips |-> <<>>, calls |-> <<>>]

\* no helper called yet
IdleFn ==
    [f |-> "none", arg |-> <<>>, text |-> <<>>, again |-> <<>>,
     net |-> NoNet, set |-> {}]

(* --------------------------- refresh_detail --------------------------- *)

\* a V1JobCondition: times are seconds, 0 standing for None
Condition(type, status, last_transition_time) ==
    [type |-> type, status |-> status, last_transition_time |-> last_transition_time]

Conditions ==
    {Condition(t, st, ltt) :
        t \in {"Failed", "Complete"}, st \in {"True", "False"}, ltt \in {0, 7}}

RECURSIVE ConditionLists(_)
ConditionLists(n) ==
    IF n = 0 THEN {<<>>}
    ELSE {<<c>> \o cs : c \in Conditions, cs \in ConditionLists(n - 1)}

\* job.status as read_namespaced_job_status returns it
JobStatuses ==
    {[start_time |-> st, completion_time |-> ct, conditions |-> cs] :
        st \in {0, 3}, ct \in {0, 5},
        cs \in UNION {ConditionLists(n) : n \in 0..MaxConditions}}

\* a pod of the namespace: its name, and whether job_name occurs in the name
Pod(name, of_job) == [name |-> name, of_job |-> of_job]

PodLists ==
    {<<>>,
     <<Pod("coredns", FALSE)>>,
     <<Pod("", FALSE), Pod("refresh-x1-abc", TRUE)>>,
     <<Pod("refresh-x1-abc", TRUE), Pod("refresh-x1-def", TRUE)>>}

\* what the cluster holds when refresh_detail is called: does the job exist,
\* its status, can pods be listed, the pods, does reading a pod log raise
Cluster(found, status, listable, pods, log_raises) ==
    [found |-> found, status |-> status, listable |-> listable, pods |-> pods,
     log_raises |-> log_raises]

Clusters ==
    {Cluster(f, st, l, ps, lr) :
        f \in BOOLEAN, st \in JobStatuses, l \in BOOLEAN, ps \in PodLists,
        lr \in BOOLEAN}

NoDetail ==
    [code |-> 0, status |-> "", startedAt |-> 0, completedAt |-> 0,
     podName |-> "", logs |-> ""]

IdleJob ==
    [pc |-> "idle",
     cluster |-> Cluster(FALSE, [start_time |-> 0, completion_time |-> 0,
                                 conditions |-> <<>>], FALSE, <<>>, FALSE),
     response |-> NoDetail]

RECURSIVE ConditionLoop(_, _)
\* lines 946-950: d holds status and completed_at
ConditionLoop(conditions, d) ==
    IF conditions = <<>> THEN d
    ELSE LET c == Head(conditions)
         IN  ConditionLoop(Tail(conditions),
                IF c.type = "Failed" /\ c.status = "True"
                THEN [d EXCEPT !.status = "Failed",
                               !.completedAt =
                                   IF @ = 0 /\ c.last_transition_time # 0
                                   THEN c.last_transition_time ELSE @]
                ELSE d)

\* a mapping in which a completion time outweighs a Failed condition
JobStateCompletionWins(st) ==
    [NoDetail EXCEPT !.status = IF st.completion_time # 0 THEN "Succeeded"
                                ELSE IF \E i \in 1..Len(st.conditions) :
                                          /\ st.conditions[i].type = "Failed"
                                          /\ st.conditions[i].status = "True"
                                     THEN "Failed" ELSE "Running",
                     !.startedAt = st.start_time,
                     !.completedAt = st.completion_time]

\* lines 939-950: status, startedAt and completedAt from job.status
JobState(st) ==
    ConditionLoop(st.conditions,
        [NoDetail EXCEPT !.status = IF st.completion_time # 0
                                    THEN "Succeeded" ELSE "Running",
                         !.startedAt = st.start_time,
                         !.completedAt = st.completion_time])

RECURSIVE PodLogs(_, _, _)
\* lines 953-963: the first pod whose name holds job_name, and its log tail
\* unless reading it raises
PodLogs(pods, log_raises, d) ==
    IF pods = <<>> THEN d
    ELSE IF Head(pods).name # "" /\ Head(pods).of_job
    THEN [d EXCEPT !.podName = Head(pods).name,
                   !.logs = IF log_raises THEN "" ELSE "tail"]
    ELSE PodLogs(Tail(pods), log_raises, d)

\* refresh_detail(job_name): an exception of read_namespaced_job_status or
\* of list_namespaced_pod is not caught and Flask answers 500
refresh_detail(c) ==
    IF ~c.found \/ ~c.listable THEN [NoDetail EXCEPT !.code = 500]
    ELSE [PodLogs(c.pods, c.log_raises, JobState(c.status)) EXCEPT !.code = 200]

SeqToSet(s) == {s[i] : i \in 1..Len(s)}

(* ---------------------- api_request_with_retry ------------------------ *)

\* seconds
MAX_BACKOFF == 60

\* what requests.get does in one attempt: it raises exc, or it answers with a
\* status code, headers and a body that parses as JSON or does not
Response(exc, status_code, headers, json_ok) ==
    [exc |-> exc, status_code |-> status_code, headers |-> headers,
     json_ok |-> json_ok]

NoResponse == Response("", 0, {}, FALSE)

Responses ==
    {Response("", 200, {}, TRUE),
     Response("", 200, {}, FALSE),
     Response("", 429, {}, FALSE),
     Response("", 429, {<<"Retry-After", 7>>}, FALSE),
     Response("", 503, {}, FALSE),
     Response("", 404, {}, FALSE),
     Response("ConnectionError", 0, {}, FALSE),
     Response("RequestException", 0, {}, FALSE)}

\* the `backoff` arguments explored (2 is the default)
BackoffInputs == {2, 40}

\* random.uniform(0.1, 0.5), in tenths of a second
JitterDraws == {1, 5}

\* int(response.headers.get("Retry-After", 5))
RetryAfter(response) ==
    IF \E h \in response.headers : h[1] = "Retry-After"
    THEN (CHOOSE h \in response.headers : h[1] = "Retry-After")[2]
    ELSE 5

\* the time.sleep(wait_time) of line 180
SleepRetryAfter(response) ==
    [why |-> "Retry-After", seconds |-> RetryAfter(response), tenths |-> 0]

\* _sleep_with_backoff(base_backoff, attempt, jitter): the time slept, u being
\* the value drawn for the jitter
sleep_with_backoff(base_backoff, attempt, jitter, u) ==
    LET wait_time == base_backoff * (2 ^ (attempt - 1))
    IN  [why |-> "backoff",
         seconds |-> IF wait_time < MAX_BACKOFF THEN wait_time ELSE MAX_BACKOFF,
         tenths |-> IF jitter THEN u ELSE 0]

IdleHttp ==
    [pc |-> "idle", retries |-> 0, backoff |-> 0, jitter |-> FALSE,
     attempt |-> 0, requests |-> 0, response |-> NoResponse, slept |-> <<>>,
     result |-> "none"]

\* a loop in which a 429 does not use up an attempt
ContinueFreeOn429(h) ==
    IF h.response.exc = "" /\ h.response.status_code = 429
    THEN h
    ELSE IF h.attempt < h.retries
         THEN [h EXCEPT !.attempt = @ + 1]
         ELSE [h EXCEPT !.pc = "done", !.result = "None"]

\* `for attempt in range(1, retries + 1)` moves on: the next attempt or,
\* after the last, `return None` (lines 200-201)
Continue(h) ==
    IF h.attempt < h.retries
    THEN [h EXCEPT !.attempt = @ + 1]
    ELSE [h EXCEPT !.pc = "done", !.result = "None"]

(* ------------------------------ state --------------------------------- *)

VARIABLES
    store,          \* etcd: key text below "/vlan/ip/" -> record
    etcdUp,         \* endpoint index -> does status() succeed
    cloud,          \* the Linode inventory of REGION
    VLAN_IP_CACHE,  \* module-level cache of fetch_assigned_ips
    now,            \* wall clock, seconds
    SUBNET,         \* os.getenv("SUBNET"), <<>> when unset
    req,            \* handler -> the locals of the request it runs
    resp,           \* handler -> the response of its last finished request
    ops,            \* requests started so far
    granted,        \* bare addresses answered 200 by /allocate so far
    released,       \* has any /release request been started
    solo,           \* handler -> no other request has run since its request began
    http,           \* the locals of a call of api_request_with_retry
    fetched,        \* the last call of fetch_assigned_ips made on its own
    fn,             \* the last call of a helper made on its own
    job,            \* the refresh job and the last answer of refresh_detail
    sql             \* the SQLite-backed service: table, inventory, requests

vars == <<store, etcdUp, cloud, VLAN_IP_CACHE, now, SUBNET, req, resp, ops,
          granted, released, solo, http, fetched, fn, job, sql>>

Procs == 1..NumProcs

\* the endpoints of os.getenv("ETCD_ENDPOINTS"), by position in the list
ETCD_ENDPOINTS == DOMAIN etcdUp

REGION == "us-east"

\* the YAML document put under a key (allocated_at left out: values are
\* never read back)
Payload(source, ip_net, notes) ==
    [status |-> "allocated", source |-> source, region |-> REGION,
     subnet |-> NetStr(ip_net), linode_id |-> "None", notes |-> notes]

\* a key written by an older initializer
InitializerPayload(a, p) ==
    [status |-> "allocated", source |-> "initializer", region |-> REGION,
     subnet |-> CidrStr(a - (a % (2 ^ (32 - p))), p), linode_id |-> "None",
     notes |-> ""]

KeyBare(bare) == bare

KeyOldCidr(bare, prefixlen) == bare \o <<SLASH, NumTok(prefixlen)>>

StoreEmpty == <<>>

StoreLegacy ==
    (KeyOldCidr(IpStr(TenNet + 2), 28) :> InitializerPayload(TenNet + 2, 28))

StoreBoth ==
    (KeyBare(IpStr(TenNet + 3)) :> Payload("api-allocate", ip_network(CidrStr(TenNet, 28)), ""))
        @@ (KeyOldCidr(IpStr(TenNet + 3), 28) :> InitializerPayload(TenNet + 3, 28))

InitStores == {StoreEmpty, StoreLegacy, StoreBoth}

\* the deployments explored: what etcd holds, what Linode lists, SUBNET and
\* CACHE_TTL_SECONDS at start-up
Deployment(st, inv, subnet, ttl) ==
    [store |-> st, cloud |-> inv, SUBNET |-> subnet, ttl |-> ttl]

Deployments ==
    {Deployment(StoreEmpty, InvEmpty, CidrStr(TenNet, 28), 0),
     Deployment(StoreEmpty, InvVlan, CidrStr(TenNet, 28), 0),
     Deployment(StoreEmpty, InvVlan, CidrStr(TenNet, 28), 1),
     Deployment(StoreLegacy, InvVlan, CidrStr(TenNet + 4, 30), 0),
     Deployment(StoreBoth, InvEmpty, CidrStr(TenNet, 28), 0),
     Deployment(StoreLegacy, InvEmpty, <<>>, 0),
     Deployment(StoreLegacy, InvEmpty, CidrStr(TenNet, 28), 0),
     Deployment(StoreBoth, InvEmpty, CidrStr(TenNet, 29), 0),
     Deployment(StoreBoth, InvEmpty, CidrStr(TenNet, 30), 0),
     Deployment(StoreLegacy, InvEmpty, CidrStr(TenNet, 30), 0)}

\* request bodies of POST /allocate: the "subnet" field
SubnetInputs ==
    {<<>>, <<WORD>>, CidrStr(TenNet, 28), CidrStr(TenNet + 1, 30)}

\* request bodies of POST /release: the "ip_address" field
ReleaseInputs ==
    {<<>>, IpStr(TenNet + 1), IpStr(TenNet + 2),
     <<SPACE>> \o CidrStr(TenNet + 3, 28) \o <<SPACE>>, <<WORD>>}

IdleReq ==
    [op |-> "none", pc |-> "idle", ip_net |-> NoNet, conn |-> 0,
     seen |-> {}, inventory |-> "none", linode_assigned_bare |-> {},
     sync |-> {}, cursor |-> 0, tries |-> 0,
     ip_address |-> <<>>, bare |-> <<>>, deleted_any |-> FALSE, seq |-> 0]

NoResp ==
    [code |-> 0, error |-> "", ip |-> <<>>, cidr |-> 0, allocated_ip |-> <<>>,
     Used |-> 0, Reserved |-> 0]

Error(code, error) == [NoResp EXCEPT !.code = code, !.error = error]

(* ------------- the SQLite-backed service (06-rest-api-new.py) --------- *)

\* a row of vlan_ips; the table is the sequence of its rows in rowid order
Row(ip_address, assigned) == [ip_address |-> ip_address, assigned |-> assigned]

\* the addresses the service deals with
SqlIps == {IpStr(TenNet + 2), IpStr(TenNet + 3)}

\* SELECT ip_address FROM vlan_ips WHERE ip_address = ?
SqlHasRow(table, ip_address) ==
    \E i \in 1..Len(table) : table[i].ip_address = ip_address

\* SELECT ip_address FROM vlan_ips WHERE assigned = 0 LIMIT 1, <<>> for no row
SqlSelectFree(table) ==
    LET free == {i \in 1..Len(table) : table[i].assigned = 0}
    IN  IF free = {} THEN <<>> ELSE table[SetMin(free)].ip_address

\* UPDATE vlan_ips SET assigned = ? WHERE ip_address = ?
SqlUpdate(table, ip_address, assigned) ==
    [i \in 1..Len(table) |->
        IF table[i].ip_address = ip_address
        THEN Row(ip_address, assigned) ELSE table[i]]

\* INSERT OR IGNORE INTO vlan_ips (ip_address, assigned) VALUES (?, 1)
SqlInsertOrIgnore(table, ip_address) ==
    IF SqlHasRow(table, ip_address) THEN table
    ELSE Append(table, Row(ip_address, 1))

RECURSIVE sync_with_linode(_, _)
\* lines 93-107: one INSERT OR IGNORE per address of active_ips (taken in
\* ascending order)
sync_with_linode(table, active_ips) ==
    IF active_ips = {} THEN table
    ELSE LET ip == CHOOSE x \in active_ips :
                       \A y \in active_ips : x[1][2] <= y[1][2]
         IN  sync_with_linode(SqlInsertOrIgnore(table, ip), active_ips \ {ip})

\* is_ip_available: grep finds the address in `networking ip-list` or not
is_ip_available(listed, ip_address) == ip_address \notin listed

SqlIdle == [pc |-> "idle", ip_address |-> <<>>]

SqlAnswer(code, ip_address) == [code |-> code, ip_address |-> ip_address]

\* a request answered: which endpoint, for which address, with which code
SqlEvent(op, ip_address, code) == [op |-> op, ip_address |-> ip_address, code |-> code]

\* the service with the database file `table`, the ipv4 lists of the
\* instances and the addresses of `networking ip-list`
SqlService(table, ipv4, listed) ==
    [table |-> table, ipv4 |-> ipv4, listed |-> listed,
     h |-> [p \in Procs |-> SqlIdle],
     answer |-> [p \in Procs |-> SqlAnswer(0, <<>>)],
     started |-> 0, log |-> <<>>, synced |-> FALSE]

IdleSql == SqlService(<<>>, {}, {})

\* the database files found at start-up: rows left by earlier runs
SqlFiles ==
    {<<>>} \cup {<<Row(a, x)>> : a \in SqlIps, x \in {0, 1}}
           \cup {<<Row(q[1], x), Row(q[2], y)>> :
                    q \in {r \in SqlIps \X SqlIps : r[1] # r[2]},
                    x \in {0, 1}, y \in {0, 1}}

\* lines 219-220: initialize_db() and sync_with_linode() at import
SqlStartups ==
    {[SqlService(sync_with_linode(t, ipv4), ipv4, listed) EXCEPT !.synced = TRUE] :
        t \in SqlFiles, ipv4 \in SUBSET SqlIps, listed \in SUBSET SqlIps}

\* the state after start-up in one of the deployments ds, with the helper
\* input, the refresh job and the SQLite service drawn from fns, jobs, sqls
InitWith(endpoints, ds, fns, jobs, sqls) ==
    /\ \E d \in ds :
          /\ store = d.store
          /\ cloud = d.cloud
          /\ SUBNET = d.SUBNET
          /\ VLAN_IP_CACHE = EmptyCache(d.ttl)
    /\ etcdUp = [e \in 1..endpoints |-> TRUE]
    /\ now = 0
    /\ req = [p \in Procs |-> IdleReq]
    /\ resp = [p \in Procs |-> NoResp]
    /\ ops = 0
    /\ granted = {}
    /\ released = FALSE
    /\ solo = [p \in Procs |-> TRUE]
    /\ http = IdleHttp
    /\ fetched = NoFetch
    /\ fn \in fns
    /\ job \in jobs
    /\ sql \in sqls

InitAll(ds, fns, jobs, sqls) == InitWith(NumEndpoints, ds, fns, jobs, sqls)

\* the state after start-up in one of the deployments ds
InitIn(ds) == InitAll(ds, {IdleFn}, {IdleJob}, {IdleSql})

Init == InitIn(Deployments)

(* --------------------------- etcd client ------------------------------ *)

\* a selection that keeps the last endpoint whose status() succeeds
\* (get_etcd_connection below: the first such endpoint, 0 when there is
\* none, which is the ConnectionError of line 425)
get_etcd_connection_last(up) ==
    IF \E e \in DOMAIN up : up[e]
    THEN SetMax({e \in DOMAIN up : up[e]})
    ELSE 0

get_etcd_connection(up) ==
    IF \E e \in DOMAIN up : up[e]
    THEN SetMin({e \in DOMAIN up : up[e]})
    ELSE 0

\* a compare that always succeeds
AbsentAlways(st, key) == TRUE

\* version(key) == 0
Absent(st, key) == key \notin DOMAIN st

\* a put that is acknowledged and lost
PutLost(st, key, value) == st

Put(st, key, value) == (key :> value) @@ st

\* a delete that is acknowledged and lost
DeleteLost(st, key) == st

\* a delete of every key that starts with `key`
DeleteWithPrefix(st, key) ==
    [k \in {j \in DOMAIN st :
              ~(Len(j) >= Len(key) /\ SubSeq(j, 1, Len(key)) = key)} |-> st[k]]

Delete(st, key) == [k \in (DOMAIN st) \ {key} |-> st[k]]

\* a read that forgets to normalize the keys
etcd_used_raw(keys) == keys \ {<<>>}

\* etcd_used_bare of lines 581-589, from the keys get_prefix returned
etcd_used_bare(keys) == {normalize_ip(k) : k \in keys} \ {<<>>}

(* ----------------------------- /allocate ------------------------------ *)

\* what is kept of a request once its handler has returned: what it was, its
\* place in the order of arrival, how its inventory fetch ended and how many
\* claims it submitted
Returned(r, tries) ==
    [IdleReq EXCEPT !.op = r.op, !.pc = "done", !.ip_net = r.ip_net,
                    !.inventory = r.inventory, !.tries = tries,
                    !.ip_address = r.ip_address, !.seq = r.seq]

Finish(p, r) ==
    /\ req' = [req EXCEPT ![p] = Returned(req[p], req[p].tries)]
    /\ resp' = [resp EXCEPT ![p] = r]

\* a used set that leaves out the inventory
used_bare_store_only(r) == etcd_used_bare(r.seen)

\* used_bare of lines 593 and 618
used_bare(r) == etcd_used_bare(r.seen) \cup r.linode_assigned_bare

\* a scan that starts over after a lost claim
CandidatesFromStart(r) ==
    {h \in hosts(r.ip_net) :
        /\ IpStr(h) \notin reserved_set(r.ip_net)
        /\ IpStr(h) \notin used_bare(r)}

\* a scan that stays on the host whose claim it lost
CandidatesNotPastCursor(r) ==
    {h \in hosts(r.ip_net) :
        /\ h >= r.cursor
        /\ IpStr(h) \notin reserved_set(r.ip_net)
        /\ IpStr(h) \notin used_bare(r)}

\* the hosts the scan of lines 623-631 has not passed yet and does not skip
Candidates(r) ==
    LET res == reserved_set(r.ip_net)
        used == used_bare(r)
    IN  {h \in hosts(r.ip_net) :
            /\ h > r.cursor
            /\ IpStr(h) \notin res
            /\ IpStr(h) \notin used}

InFlight(q) == req[q].pc \notin {"idle", "done"}

\* a request starts on handler p: it runs alone iff no other is in flight, and
\* those in flight no longer run alone
Starts(p) ==
    /\ req[p].pc \in {"idle", "done"}
    /\ ops < MaxOps
    /\ ops' = ops + 1
    /\ solo' = [q \in Procs |->
                 IF q = p THEN \A o \in Procs \ {p} : ~InFlight(o)
                 ELSE IF InFlight(q) THEN FALSE ELSE solo[q]]

\* lines 560-589: validation, connection, and the read of every key
AllocateBegin(p, subnet) ==
    /\ Starts(p)
    /\ LET ip_net == ip_network(subnet)
           conn == get_etcd_connection(etcdUp)
       IN  IF subnet = <<>>
           THEN /\ req' = [req EXCEPT ![p] = [IdleReq EXCEPT !.op = "allocate", !.pc = "done", !.seq = ops + 1]]
                /\ resp' = [resp EXCEPT ![p] = Error(400, "Subnet not provided")]
           ELSE IF ~ip_net.ok
           THEN /\ req' = [req EXCEPT ![p] = [IdleReq EXCEPT !.op = "allocate", !.pc = "done", !.seq = ops + 1]]
                /\ resp' = [resp EXCEPT ![p] = Error(400, "Invalid subnet format")]
           ELSE IF conn = 0
           THEN /\ req' = [req EXCEPT ![p] = [IdleReq EXCEPT !.op = "allocate", !.pc = "done", !.seq = ops + 1]]
                /\ resp' = [resp EXCEPT ![p] = Error(500, "Unexpected error")]
           ELSE /\ req' = [req EXCEPT ![p] =
                            [IdleReq EXCEPT !.op = "allocate", !.pc = "fetch",
                                            !.ip_net = ip_net, !.conn = conn,
                                            !.seen = DOMAIN store,
                                            !.seq = ops + 1]]
                /\ resp' = [resp EXCEPT ![p] = NoResp]
    /\ UNCHANGED <<store, etcdUp, cloud, VLAN_IP_CACHE, now, SUBNET, granted, released, http, fetched, fn, job, sql>>

\* line 592: set(fetch_assigned_ips() or []); an empty difference at line 596
\* leads straight to the scan
AllocateFetch(p) ==
    /\ req[p].pc = "fetch"
    /\ \E token_ok \in BOOLEAN, fails \in FailSets(cloud) :
          LET f == fetch_assigned_ips(VLAN_IP_CACHE, now, cloud, token_ok, fails)
              linode == SeqToSet(f.ips)
              todo == linode \ etcd_used_bare(req[p].seen)
          IN  /\ VLAN_IP_CACHE' = f.cache
              /\ req' = [req EXCEPT ![p] =
                          [@ EXCEPT !.inventory = FetchOutcome(VLAN_IP_CACHE, now, token_ok, fails),
                                    !.linode_assigned_bare = linode,
                                    !.sync = todo,
                                    !.pc = IF todo = {} THEN "claim" ELSE "sync"]]
    /\ UNCHANGED <<store, etcdUp, cloud, now, SUBNET, resp, ops, granted, released, solo, http, fetched, fn, job, sql>>

\* a sync loop in which an exception of the store ends the request with 500
AllocateSyncAborts(p) ==
    /\ req[p].pc = "sync"
    /\ \E bare \in req[p].sync :
          IF ~etcdUp[req[p].conn]
          THEN /\ Finish(p, Error(500, "Unexpected error"))
               /\ UNCHANGED store
          ELSE /\ store' = IF Absent(store, KeyBare(bare))
                           THEN Put(store, KeyBare(bare),
                                    Payload("linode-sync", req[p].ip_net,
                                            "Discovered via Linode API"))
                           ELSE store
               /\ req' = [req EXCEPT ![p] =
                           [@ EXCEPT !.sync = req[p].sync \ {bare},
                                     !.pc = IF req[p].sync = {bare}
                                            THEN "claim" ELSE "sync"]]
               /\ UNCHANGED resp
    /\ UNCHANGED <<etcdUp, cloud, VLAN_IP_CACHE, now, SUBNET, ops, granted, released, solo, http, fetched, fn, job, sql>>

\* lines 596-615: one pass of the sync loop; the transaction puts the bare key
\* when it is absent, and an exception of the store is logged and ignored
AllocateSync(p) ==
    /\ req[p].pc = "sync"
    /\ \E bare \in req[p].sync :
          LET key_bare == KeyBare(bare)
              rest == req[p].sync \ {bare}
          IN  /\ store' = IF etcdUp[req[p].conn] /\ Absent(store, key_bare)
                          THEN Put(store, key_bare,
                                   Payload("linode-sync", req[p].ip_net,
                                           "Discovered via Linode API"))
                          ELSE store
              /\ req' = [req EXCEPT ![p] =
                          [@ EXCEPT !.sync = rest,
                                    !.pc = IF rest = {} THEN "claim" ELSE "sync"]]
    /\ UNCHANGED <<etcdUp, cloud, VLAN_IP_CACHE, now, SUBNET, resp, ops, granted, released, solo, http, fetched, fn, job, sql>>

\* a claim that compares the bare key only
ClaimCompareBareOnly(st, bare, prefixlen) == Absent(st, KeyBare(bare))

\* a claim that puts without comparing
ClaimCompareAlways(st, bare, prefixlen) == TRUE

\* a claim that compares the key of the old style only
ClaimCompareOldOnly(st, bare, prefixlen) ==
    (bare \o <<SLASH, NumTok(prefixlen)>>) \notin DOMAIN st

\* the transaction of lines 651-660 on candidate `bare`
ClaimCompare(st, bare, prefixlen) ==
    /\ Absent(st, KeyBare(bare))
    /\ Absent(st, KeyOldCidr(bare, prefixlen))

\* a claim that writes the old key style
ClaimKeyOldStyle(bare, prefixlen) == KeyOldCidr(bare, prefixlen)

\* the key the claim transaction puts
ClaimKey(bare, prefixlen) == KeyBare(bare)

\* lines 623-673: the scan moves to the next candidate and tries to claim it
AllocateClaim(p) ==
    /\ req[p].pc = "claim"
    /\ Candidates(req[p]) # {}
    /\ LET r == req[p]
           h == SetMin(Candidates(r))
           bare == IpStr(h)
           cidr_suffix == r.ip_net.prefixlen
       IN  IF ~etcdUp[r.conn]
           THEN /\ req' = [req EXCEPT ![p] = Returned(r, r.tries + 1)]
                /\ resp' = [resp EXCEPT ![p] = Error(500, "Failed to allocate IP")]
                /\ UNCHANGED <<store, granted>>
           ELSE IF ClaimCompare(store, bare, cidr_suffix)
           THEN /\ store' = Put(store, ClaimKey(bare, cidr_suffix),
                                Payload("api-allocate", r.ip_net, ""))
                /\ req' = [req EXCEPT ![p] = Returned(r, r.tries + 1)]
                /\ resp' = [resp EXCEPT ![p] =
                             [NoResp EXCEPT !.code = 200, !.ip = bare,
                                            !.cidr = cidr_suffix,
                                            !.allocated_ip =
                                                bare \o <<SLASH, NumTok(cidr_suffix)>>]]
                /\ granted' = granted \cup {bare}
           ELSE /\ req' = [req EXCEPT ![p] =
                            [@ EXCEPT !.cursor = h, !.tries = r.tries + 1]]
                /\ UNCHANGED <<store, resp, granted>>
    /\ UNCHANGED <<etcdUp, cloud, VLAN_IP_CACHE, now, SUBNET, ops, released, solo, http, fetched, fn, job, sql>>

\* lines 675-677: the scan ran out of hosts; the message carries
\* len(used_bare) and len(res)
AllocateExhausted(p) ==
    /\ req[p].pc = "claim"
    /\ Candidates(req[p]) = {}
    /\ Finish(p, [Error(400, "No IPs available in subnet")
                    EXCEPT !.Used = Cardinality(used_bare(req[p])),
                           !.Reserved = Cardinality(reserved_set(req[p].ip_net))])
    /\ UNCHANGED <<store, etcdUp, cloud, VLAN_IP_CACHE, now, SUBNET, ops, granted, released, solo, http, fetched, fn, job, sql>>

(* ----------------------------- /release ------------------------------- *)

\* lines 717-743: validation, the reserved check, then the connection
ReleaseBegin(p, ip_address) ==
    /\ Starts(p)
    /\ released' = TRUE
    /\ LET ip_net == ip_network(SUBNET)
           bare == normalize_ip(ip_address)
           conn == get_etcd_connection(etcdUp)
           stop(r) == /\ req' = [req EXCEPT ![p] =
                                  [IdleReq EXCEPT !.op = "release", !.pc = "done",
                                                  !.ip_address = ip_address,
                                                  !.seq = ops + 1]]
                      /\ resp' = [resp EXCEPT ![p] = r]
       IN  IF ip_address = <<>>
           THEN stop(Error(400, "IP address not provided"))
           ELSE IF SUBNET = <<>>
           THEN stop(Error(500, "Missing REGION or SUBNET env variable"))
           ELSE IF ~ip_net.ok
           THEN stop(Error(500, "Invalid SUBNET env variable"))
           ELSE IF bare \in reserved_set(ip_net)
           THEN stop(Error(403, "reserved and cannot be released"))
           ELSE IF conn = 0
           THEN stop(Error(500, "Unexpected error"))
           ELSE /\ req' = [req EXCEPT ![p] =
                            [IdleReq EXCEPT !.op = "release", !.pc = "del_bare",
                                            !.ip_net = ip_net, !.conn = conn,
                                            !.ip_address = ip_address,
                                            !.bare = bare, !.seq = ops + 1]]
                /\ resp' = [resp EXCEPT ![p] = NoResp]
    /\ UNCHANGED <<store, etcdUp, cloud, VLAN_IP_CACHE, now, SUBNET, granted, http, fetched, fn, job, sql>>

\* line 747: etcd.delete(key_bare)
ReleaseDeleteBare(p) ==
    /\ req[p].pc = "del_bare"
    /\ LET r == req[p]
           key_bare == KeyBare(r.bare)
       IN  IF ~etcdUp[r.conn]
           THEN /\ Finish(p, Error(500, "Release failed"))
                /\ UNCHANGED store
           ELSE /\ store' = Delete(store, key_bare)
                /\ req' = [req EXCEPT ![p] =
                            [@ EXCEPT !.pc = "del_old",
                                      !.deleted_any = ~Absent(store, key_bare)]]
                /\ UNCHANGED resp
    /\ UNCHANGED <<etcdUp, cloud, VLAN_IP_CACHE, now, SUBNET, ops, granted, released, solo, http, fetched, fn, job, sql>>

\* a handler that answers 200 whatever was deleted
ReleaseAnswerAlwaysOk(deleted_any, bare) ==
    [NoResp EXCEPT !.code = 200, !.ip = bare]

\* lines 755-760: 200 if any deletion happened, else 404
ReleaseAnswer(deleted_any, bare) ==
    IF deleted_any
    THEN [NoResp EXCEPT !.code = 200, !.ip = bare]
    ELSE Error(404, "not found in etcd")

\* lines 749-760: etcd.delete(key_old_cidr), then the answer
ReleaseDeleteOld(p) ==
    /\ req[p].pc = "del_old"
    /\ LET r == req[p]
           key_old_cidr == KeyOldCidr(r.bare, r.ip_net.prefixlen)
           deleted_any == r.deleted_any \/ ~Absent(store, key_old_cidr)
       IN  IF ~etcdUp[r.conn]
           THEN /\ Finish(p, Error(500, "Release failed"))
                /\ UNCHANGED store
           ELSE /\ store' = Delete(store, key_old_cidr)
                /\ Finish(p, ReleaseAnswer(deleted_any, r.bare))
    /\ UNCHANGED <<etcdUp, cloud, VLAN_IP_CACHE, now, SUBNET, ops, granted, released, solo, http, fetched, fn, job, sql>>

(* ---------------------------- environment ----------------------------- *)

\* an etcd endpoint stops or starts answering
EtcdFlip(e) ==
    /\ etcdUp' = [etcdUp EXCEPT ![e] = ~@]
    /\ UNCHANGED <<store, cloud, VLAN_IP_CACHE, now, SUBNET, req, resp, ops, granted, released, solo, http, fetched, fn, job, sql>>

\* a second passes; the only reader of the clock is the freshness test of
\* the cache, so only the seconds that age a fresh cache are taken
Tick ==
    /\ now < MaxClock
    /\ CacheFresh(VLAN_IP_CACHE, now)
    /\ now' = now + 1
    /\ UNCHANGED <<store, etcdUp, cloud, VLAN_IP_CACHE, SUBNET, req, resp, ops, granted, released, solo, http, fetched, fn, job, sql>>

Next ==
    \/ \E p \in Procs, subnet \in SubnetInputs : AllocateBegin(p, subnet)
    \/ \E p \in Procs : AllocateFetch(p)
    \/ \E p \in Procs : AllocateSync(p)
    \/ \E p \in Procs : AllocateClaim(p)
    \/ \E p \in Procs : AllocateExhausted(p)
    \/ \E p \in Procs, ip_address \in ReleaseInputs : ReleaseBegin(p, ip_address)
    \/ \E p \in Procs : ReleaseDeleteBare(p)
    \/ \E p \in Procs : ReleaseDeleteOld(p)
    \/ \E e \in ETCD_ENDPOINTS : EtcdFlip(e)
    \/ Tick

Spec == Init /\ [][Next]_vars

(* ------------------- with several etcd endpoints ---------------------- *)

EndpointDeployments ==
    {Deployment(StoreEmpty, InvVlan, CidrStr(TenNet, 28), 1),
     Deployment(StoreBoth, InvEmpty, CidrStr(TenNet, 30), 0)}

InitEndpoints ==
    InitWith(ManyEndpoints, EndpointDeployments, {IdleFn}, {IdleJob}, {IdleSql})

SpecEndpoints == InitEndpoints /\ [][Next]_vars

(* ------------- with an older initializer writing to etcd -------------- *)

\* the keys an initializer of the old style writes while the service runs
LegacyWrites ==
    {[ip |-> TenNet + 2, prefixlen |-> 28], [ip |-> TenNet + 2, prefixlen |-> 30]}

\* the initializer puts /vlan/ip/<ip>/<prefix>
InitializerPut(w) ==
    /\ store' = Put(store, KeyOldCidr(IpStr(w.ip), w.prefixlen),
                    InitializerPayload(w.ip, w.prefixlen))
    /\ UNCHANGED <<etcdUp, cloud, VLAN_IP_CACHE, now, SUBNET, req, resp, ops,
                   granted, released, solo, http, fetched, fn, job, sql>>

NextLegacy ==
    \/ Next
    \/ \E w \in LegacyWrites : InitializerPut(w)

\* the deployments in which the old initializer is still at work
LegacyDeployments ==
    {Deployment(StoreEmpty, InvVlan, CidrStr(TenNet, 28), 1),
     Deployment(StoreLegacy, InvVlan, CidrStr(TenNet + 4, 30), 0)}

InitLegacy == InitIn(LegacyDeployments)

SpecLegacy == InitLegacy /\ [][NextLegacy]_vars

(* ------------------ one cloud HTTP call on its own -------------------- *)

\* api_request_with_retry(url, headers, retries, backoff, jitter) is called
HttpCall(retries, backoff, jitter) ==
    /\ http.pc \in {"idle", "done"}
    /\ http' = [IdleHttp EXCEPT !.retries = retries, !.backoff = backoff,
                                !.jitter = jitter,
                                !.attempt = IF retries >= 1 THEN 1 ELSE 0,
                                !.pc = IF retries >= 1 THEN "request" ELSE "done",
                                !.result = IF retries >= 1 THEN "none" ELSE "None"]
    /\ UNCHANGED <<store, etcdUp, cloud, VLAN_IP_CACHE, now, SUBNET, req, resp,
                   ops, granted, released, solo, fetched, fn, job, sql>>

\* lines 169-198: one pass of the loop; requests.get ends as `response` and
\* u is the jitter drawn if the pass sleeps with backoff
HttpAttempt(response, u) ==
    /\ http.pc = "request"
    /\ LET h == [http EXCEPT !.requests = @ + 1, !.response = response]
           backed == [h EXCEPT !.slept =
                        Append(@, sleep_with_backoff(h.backoff, h.attempt, h.jitter, u))]
       IN  http' =
             IF response.exc # "" THEN Continue(backed)
             ELSE IF response.status_code = 200
             THEN [h EXCEPT !.pc = "done",
                            !.result = IF response.json_ok THEN "json" ELSE "None"]
             ELSE IF response.status_code = 429
             THEN Continue([h EXCEPT !.slept = Append(@, SleepRetryAfter(response))])
             ELSE Continue(backed)
    /\ UNCHANGED <<store, etcdUp, cloud, VLAN_IP_CACHE, now, SUBNET, req, resp,
                   ops, granted, released, solo, fetched, fn, job, sql>>

NextRetry ==
    \/ \E retries \in 0..MaxRetries, backoff \in BackoffInputs, jitter \in BOOLEAN :
          HttpCall(retries, backoff, jitter)
    \/ \E response \in Responses, u \in JitterDraws : HttpAttempt(response, u)

InitRetry == InitIn({Deployment(StoreEmpty, InvEmpty, CidrStr(TenNet, 28), 0)})

SpecRetry == InitRetry /\ [][NextRetry]_vars

(* ----------------- normalize_ip and reserved_set alone ---------------- *)

\* 10.168.0.0 as a 32-bit value; it stands for 192.168.0.0, whose value is
\* beyond the integers of TLC (the functions treat every address alike)
Net168 == TenNet + 168 * (2 ^ 16)

\* the tokens of the texts handed to normalize_ip
Alphabet == {IpTok(Net168 + 9), SLASH, SPACE, NumTok(24), WORD}

RECURSIVE TextsOfLen(_)
TextsOfLen(n) ==
    IF n = 0 THEN {<<>>}
    ELSE {<<t>> \o s : t \in Alphabet, s \in TextsOfLen(n - 1)}

\* the prefix lengths and the addresses of the subnets handed to reserved_set
PrefixInputs == 24..32

AddressInputs == {Net168, Net168 + 77, TenNet, TenNet + 5}

\* the texts a helper may be called with
FnInputs ==
    UNION {TextsOfLen(n) : n \in 0..MaxLen}
        \cup {CidrStr(a, pl) : a \in AddressInputs, pl \in PrefixInputs}

\* normalize_ip(fn.arg) is called, and called again on what it returned
CallNormalize ==
    /\ fn.f = "none"
    /\ fn' = [fn EXCEPT !.f = "normalize_ip",
                        !.text = normalize_ip(fn.arg),
                        !.again = normalize_ip(normalize_ip(fn.arg))]
    /\ UNCHANGED <<store, etcdUp, cloud, VLAN_IP_CACHE, now, SUBNET, req, resp,
                   ops, granted, released, solo, http, fetched, job, sql>>

\* reserved_set(ip_network(fn.arg, strict=False)) is called
CallReservedSet ==
    /\ fn.f = "none"
    /\ ip_network(fn.arg).ok
    /\ fn' = [fn EXCEPT !.f = "reserved_set",
                        !.net = ip_network(fn.arg),
                        !.set = reserved_set(ip_network(fn.arg))]
    /\ UNCHANGED <<store, etcdUp, cloud, VLAN_IP_CACHE, now, SUBNET, req, resp,
                   ops, granted, released, solo, http, fetched, job, sql>>

NextFn ==
    \/ CallNormalize
    \/ CallReservedSet

InitFn ==
    InitAll({Deployment(StoreEmpty, InvEmpty, CidrStr(TenNet, 28), 0)},
            {[IdleFn EXCEPT !.arg = s] : s \in FnInputs}, {IdleJob}, {IdleSql})

SpecFn == InitFn /\ [][NextFn]_vars

(* ------------------ GET /api/v1/refresh/<job>/detail ------------------ *)

\* the handler runs against the cluster drawn at the start
RefreshDetail ==
    /\ job.pc = "idle"
    /\ job' = [job EXCEPT !.pc = "done", !.response = refresh_detail(job.cluster)]
    /\ UNCHANGED <<store, etcdUp, cloud, VLAN_IP_CACHE, now, SUBNET, req, resp,
                   ops, granted, released, solo, http, fetched, fn, sql>>

NextRefresh == RefreshDetail

InitRefresh ==
    InitAll({Deployment(StoreEmpty, InvEmpty, CidrStr(TenNet, 28), 0)},
            {IdleFn}, {[IdleJob EXCEPT !.cluster = c] : c \in Clusters}, {IdleSql})

SpecRefresh == InitRefresh /\ [][NextRefresh]_vars

(* ------------------ the SQLite-backed service at work ----------------- *)

SqlStarts(p) ==
    /\ sql.h[p].pc = "idle"
    /\ sql.started < SqlMaxOps

SqlOthers ==
    UNCHANGED <<store, etcdUp, cloud, VLAN_IP_CACHE, now, SUBNET, req, resp,
                ops, granted, released, solo, http, fetched, fn, job>>

\* /allocate-ip, lines 140-142 and 154-157: the SELECT, and 404 for no row
SqlAllocateSelect(p) ==
    /\ SqlStarts(p)
    /\ LET ip_address == SqlSelectFree(sql.table)
       IN  sql' =
             IF ip_address = <<>>
             THEN [sql EXCEPT !.started = @ + 1,
                              !.answer[p] = SqlAnswer(404, <<>>),
                              !.log = Append(@, SqlEvent("allocate-ip", <<>>, 404))]
             ELSE [sql EXCEPT !.started = @ + 1,
                              !.h[p] = [pc |-> "check", ip_address |-> ip_address]]
    /\ SqlOthers

\* /allocate-ip, lines 143-153: the check at Linode, then the UPDATE or 409
SqlAllocateCheck(p) ==
    /\ sql.h[p].pc = "check"
    /\ LET ip_address == sql.h[p].ip_address
       IN  sql' =
             IF is_ip_available(sql.listed, ip_address)
             THEN [sql EXCEPT !.table = SqlUpdate(@, ip_address, 1),
                              !.synced = FALSE,
                              !.h[p] = SqlIdle,
                              !.answer[p] = SqlAnswer(200, ip_address),
                              !.log = Append(@, SqlEvent("allocate-ip", ip_address, 200))]
             ELSE [sql EXCEPT !.h[p] = SqlIdle,
                              !.answer[p] = SqlAnswer(409, <<>>),
                              !.log = Append(@, SqlEvent("allocate-ip", ip_address, 409))]
    /\ SqlOthers

\* a /release that answers without its UPDATE
SqlReleaseWithoutUpdate(p, ip_address) ==
    /\ SqlStarts(p)
    /\ sql' = [sql EXCEPT !.started = @ + 1,
                          !.answer[p] = SqlAnswer(200, ip_address),
                          !.log = Append(@, SqlEvent("release", ip_address, 200))]
    /\ SqlOthers

\* /release, lines 185-204
SqlRelease(p, ip_address) ==
    /\ SqlStarts(p)
    /\ sql' =
         IF ip_address = <<>>
         THEN [sql EXCEPT !.started = @ + 1,
                          !.answer[p] = SqlAnswer(400, <<>>),
                          !.log = Append(@, SqlEvent("release", ip_address, 400))]
         ELSE IF SqlHasRow(sql.table, ip_address)
         THEN [sql EXCEPT !.started = @ + 1,
                          !.table = SqlUpdate(@, ip_address, 0),
                          !.synced = FALSE,
                          !.answer[p] = SqlAnswer(200, ip_address),
                          !.log = Append(@, SqlEvent("release", ip_address, 200))]
         ELSE [sql EXCEPT !.started = @ + 1,
                          !.answer[p] = SqlAnswer(404, <<>>),
                          !.log = Append(@, SqlEvent("release", ip_address, 404))]
    /\ SqlOthers

\* /vlan-attachment, lines 169-173
SqlVlanAttachment(p) ==
    /\ SqlStarts(p)
    /\ sql' = [sql EXCEPT !.started = @ + 1,
                          !.table = sync_with_linode(@, sql.ipv4),
                          !.synced = TRUE,
                          !.answer[p] = SqlAnswer(200, <<>>),
                          !.log = Append(@, SqlEvent("vlan-attachment", <<>>, 200))]
    /\ SqlOthers

\* the ip_address of a /release body: none, an address of the pool, another
SqlReleaseInputs == {<<>>, IpStr(TenNet + 9)} \cup SqlIps

NextSql ==
    \/ \E p \in Procs : SqlAllocateSelect(p)
    \/ \E p \in Procs : SqlAllocateCheck(p)
    \/ \E p \in Procs, ip_address \in SqlReleaseInputs : SqlRelease(p, ip_address)
    \/ \E p \in Procs : SqlVlanAttachment(p)

InitSql ==
    InitAll({Deployment(StoreEmpty, InvEmpty, CidrStr(TenNet, 28), 0)},
            {IdleFn}, {IdleJob}, SqlStartups)

SpecSql == InitSql /\ [][NextSql]_vars

(* ------------------- fetch_assigned_ips on its own -------------------- *)

\* the CACHE_TTL_SECONDS explored (0 is the default)
FetchTtls == {0, 1, 2}

FetchInventories == {InvEmpty, InvVlan, InvPaged}

FetchDeployments ==
    {Deployment(StoreEmpty, inv, CidrStr(TenNet, 28), ttl) :
        inv \in FetchInventories, ttl \in FetchTtls}

\* fetch_assigned_ips() is called: the credential is there or not and the
\* calls of `fails` answer None
Fetch(token_ok, fails) ==
    /\ LET f == fetch_assigned_ips(VLAN_IP_CACHE, now, cloud, token_ok, fails)
       IN  /\ VLAN_IP_CACHE' = f.cache
           /\ fetched' = [outcome |-> FetchOutcome(VLAN_IP_CACHE, now, token_ok, fails),
                          before |-> VLAN_IP_CACHE, at |-> now, inv |-> cloud,
                          token_ok |-> token_ok, fails |-> fails,
                          ips |-> f.ips, calls |-> f.calls]
    /\ UNCHANGED <<store, etcdUp, cloud, now, SUBNET, req, resp, ops, granted,
                   released, solo, http, fn, job, sql>>

\* instances of REGION come and go
CloudChange(inv) ==
    /\ inv # cloud
    /\ cloud' = inv
    /\ UNCHANGED <<store, etcdUp, VLAN_IP_CACHE, now, SUBNET, req, resp, ops,
                   granted, released, solo, http, fetched, fn, job, sql>>

\* a second passes
Pass ==
    /\ now < MaxClock
    /\ now' = now + 1
    /\ UNCHANGED <<store, etcdUp, cloud, VLAN_IP_CACHE, SUBNET, req, resp, ops,
                   granted, released, solo, http, fetched, fn, job, sql>>

NextFetch ==
    \/ \E token_ok \in BOOLEAN, fails \in FailSets(cloud) : Fetch(token_ok, fails)
    \/ \E inv \in FetchInventories : CloudChange(inv)
    \/ Pass

InitFetch == InitIn(FetchDeployments)

SpecFetch == InitFetch /\ [][NextFetch]_vars

(* ------------------------------ claims -------------------------------- *)

\* the step in which handler p answers 200 to /allocate
AllocateReturns(p) ==
    /\ req[p].op = "allocate"
    /\ req[p].pc = "claim"
    /\ resp'[p].code = 200

\* the bare addresses that the keys denote, in either form
BareOfKeys(keys) == {<<k[1]>> : k \in {j \in keys : j # <<>>}}

\* the bare addresses that have a key of either form in st
Keyed(st) == BareOfKeys(DOMAIN st)

\* the keys of the old style, /vlan/ip/<ip>/<prefix>
LegacyKeys(keys) == {k \in keys : Len(k) > 1}

\* C1: while no /release has run, every address answered by an /allocate is
\* different from all addresses answered before (so N concurrent calls get N
\* distinct addresses), has no key of any form in the store, and is not in
\* the inventory the call observed.
C1_AllocationUniqueness ==
    [][\A p \in Procs :
          (AllocateReturns(p) /\ ~released) =>
              /\ resp'[p].ip \notin granted
              /\ resp'[p].ip \notin Keyed(store)
              /\ resp'[p].ip \notin req[p].linode_assigned_bare]_vars

\* two calls that raced (one lost a claim transaction) both answered 200,
\* with different addresses
C1_Witness ==
    \E p, q \in Procs :
        /\ p # q
        /\ ~released
        /\ req[p].op = "allocate" /\ resp[p].code = 200
        /\ req[q].op = "allocate" /\ resp[q].code = 200
        /\ req[q].tries = 2
        /\ resp[p].ip # resp[q].ip

\* C2: a claim transaction commits on a candidate only while nobody holds
\* its key (so of two calls one commits); a call whose compare fails is not
\* answered an error but moves on to a later candidate; a call with no
\* candidate left answers 400 (subnet exhausted).
C2_ClaimExclusive ==
    [][\A p \in Procs :
          (req[p].op = "allocate" /\ req[p].pc = "claim" /\ req'[p] # req[p]) =>
              IF Candidates(req[p]) = {}
              THEN resp'[p].code = 400 /\ store' = store
              ELSE LET bare == IpStr(SetMin(Candidates(req[p])))
                       held == \/ KeyBare(bare) \in DOMAIN store
                               \/ KeyOldCidr(bare, req[p].ip_net.prefixlen) \in DOMAIN store
                   IN  \/ /\ ~etcdUp[req[p].conn]
                          /\ resp'[p].code = 500
                       \/ /\ etcdUp[req[p].conn] /\ ~held
                          /\ resp'[p].code = 200 /\ resp'[p].ip = bare
                          /\ KeyBare(bare) \in DOMAIN store'
                       \/ /\ etcdUp[req[p].conn] /\ held
                          /\ store' = store
                          /\ resp'[p] = NoResp
                          /\ req'[p].pc = "claim"
                          /\ req'[p].cursor > req[p].cursor]_vars

\* two calls on 10.0.0.0/30 (one free host): one answered 200 with 10.0.0.2,
\* the other lost its claim transaction and answered 400
C2_Witness ==
    \E p, q \in Procs :
        /\ p # q
        /\ req[p].op = "allocate" /\ req[p].ip_net.prefixlen = 30
        /\ resp[p].code = 200 /\ resp[p].ip = IpStr(TenNet + 2)
        /\ req[q].op = "allocate" /\ req[q].ip_net.prefixlen = 30
        /\ resp[q].code = 400 /\ req[q].tries = 1

\* the network address, the broadcast address and the first host of n
PolicyOf(n) ==
    LET size == 2 ^ (32 - n.prefixlen)
    IN  {IpStr(n.net), IpStr(n.net + size - 1),
         IpStr(IF n.prefixlen >= 31 THEN n.net ELSE n.net + 1)}

\* C3: no /allocate answers 200 with the network address, the broadcast
\* address or the first usable host of the requested subnet.
C3_NeverReserved ==
    \A p \in Procs :
        (req[p].op = "allocate" /\ resp[p].code = 200) =>
            resp[p].ip \notin PolicyOf(req[p].ip_net)

\* an /allocate answered 200 while the gateway slot had no key and was not
\* bound at the cloud
C3_Witness ==
    \E p \in Procs :
        /\ req[p].op = "allocate" /\ resp[p].code = 200
        /\ IpStr(req[p].ip_net.net + 1) \notin Keyed(store)
        /\ IpStr(req[p].ip_net.net + 1) \notin CloudBound(cloud)

\* C4 (as claimed): no /allocate answers 200 with an address that is bound
\* as a VLAN interface address at the cloud provider.
C4_NeverCloudBound ==
    \A p \in Procs :
        (req[p].op = "allocate" /\ resp[p].code = 200) =>
            resp[p].ip \notin CloudBound(cloud)

\* C5 (as claimed): an /allocate whose inventory fetch failed is aborted with
\* a 500 answer.
C5_AbortOnFetchFailure ==
    \A p \in Procs :
        (req[p].op = "allocate" /\ req[p].inventory = "failed") =>
            (req[p].pc = "done" /\ resp[p].code = 500)

\* C6: an /allocate never answers 200 with x while the store holds a legacy
\* key of x that the call read, or the legacy key of x for the requested
\* prefix (whenever it was written).
C6_LegacyHonored ==
    [][\A p \in Procs :
          AllocateReturns(p) =>
              \A k \in LegacyKeys(DOMAIN store) :
                  <<k[1]>> = resp'[p].ip =>
                      /\ k \notin req[p].seen
                      /\ k # resp'[p].ip \o <<SLASH, NumTok(req[p].ip_net.prefixlen)>>]_vars

\* a call lost a claim to a legacy key written after it had read the store
C6_Witness ==
    \E p \in Procs :
        /\ req[p].pc = "claim"
        /\ req[p].tries > 0
        /\ KeyOldCidr(IpStr(req[p].cursor), req[p].ip_net.prefixlen) \in DOMAIN store
        /\ KeyOldCidr(IpStr(req[p].cursor), req[p].ip_net.prefixlen) \notin req[p].seen
        /\ KeyBare(IpStr(req[p].cursor)) \notin DOMAIN store

\* at most one key per bare address
UniquePerBare(st) ==
    \A j, k \in DOMAIN st : (j # <<>> /\ k # <<>> /\ j[1] = k[1]) => j = k

\* C7: a step of /allocate or /release taken from a store with at most one
\* key per bare address leaves a store with at most one key per bare address.
C7_OneRecordPerAddress ==
    [][UniquePerBare(store) => UniquePerBare(store')]_vars

\* an /allocate and a /release both answered 200 and the store, which holds
\* a key of the old style, has one key per bare address
C7_Witness ==
    \E p, q \in Procs :
        /\ req[p].op = "allocate" /\ resp[p].code = 200
        /\ req[q].op = "release" /\ resp[q].code = 200
        /\ UniquePerBare(store)
        /\ LegacyKeys(DOMAIN store) # {}

\* C8: every key a step adds to the store is a bare address (no step adds a
\* key of the old style).
C8_CanonicalWritesOnly ==
    [][\A k \in (DOMAIN store') \ (DOMAIN store) :
          Len(k) = 1 /\ k[1][1] = "ip"]_vars

\* the store holds a record put by a claim of this run and a record put by
\* the cloud import
C8_Witness ==
    /\ \E k \in DOMAIN store :
          store[k].source = "api-allocate" /\ k \in granted
    /\ \E k \in DOMAIN store : store[k].source = "linode-sync"

\* C9 (as claimed): when an /allocate answers 200, every address that the
\* cloud lists and that had no key when the call read the store has its bare
\* key, with source linode-sync.
C9_CloudImported ==
    [][\A p \in Procs :
          AllocateReturns(p) =>
              \A x \in CloudBound(cloud) \ BareOfKeys(req[p].seen) :
                  /\ KeyBare(x) \in DOMAIN store'
                  /\ store'[KeyBare(x)].source = "linode-sync"]_vars

\* the hosts of n that are not reserved, have no key and were not observed
\* at the cloud by request r
FreeHosts(n, st, r) ==
    {h \in (IF n.prefixlen >= 31 THEN n.net ELSE n.net + 1)
              ..(n.net + (2 ^ (32 - n.prefixlen)) - (IF n.prefixlen >= 31 THEN 1 ELSE 2)) :
        /\ IpStr(h) \notin PolicyOf(n)
        /\ IpStr(h) \notin Keyed(st)
        /\ IpStr(h) \notin r.linode_assigned_bare}

\* C10: an /allocate that runs alone, with etcd answering, answers 200 with
\* the lowest host that is not reserved, has no key of either form and was
\* not observed at the cloud, with cidr "/<prefix>" and allocated_ip
\* "<ip>/<prefix>" (and 400 when there is no such host).
C10_LowestFreeHost ==
    [][\A p \in Procs :
          (/\ req[p].op = "allocate" /\ req[p].pc = "claim"
           /\ solo[p] /\ etcdUp[req[p].conn]
           /\ req'[p] # req[p]) =>
              LET n == req[p].ip_net
                  free == FreeHosts(n, store, req[p])
              IN  IF free = {}
                  THEN resp'[p].code = 400
                  ELSE resp'[p] =
                         [NoResp EXCEPT
                            !.code = 200,
                            !.ip = <<IpTok(SetMin(free))>>,
                            !.cidr = n.prefixlen,
                            !.allocated_ip = <<IpTok(SetMin(free)), SLASH, NumTok(n.prefixlen)>>]]_vars

\* empty store, nothing bound at the cloud: the call that ran alone on
\* 10.0.0.0/28 answered 10.0.0.2
C10_Witness ==
    \E p \in Procs :
        /\ solo[p]
        /\ req[p].op = "allocate" /\ req[p].ip_net.prefixlen = 28
        /\ resp[p].code = 200 /\ resp[p].ip = IpStr(TenNet + 2)
        /\ CloudBound(cloud) = {}
        /\ DOMAIN store = {KeyBare(IpStr(TenNet + 2))}

\* C11: an /allocate answers 200 with address a only in the step in which its
\* claim transaction puts the absent key /vlan/ip/<a> with source
\* api-allocate; a step that adds an api-allocate record adds that one record
\* only and is the last step of a call that answers 200 with its address (so
\* a call that answers an error has committed none, and no call commits two).
C11_NoPartialSuccess ==
    [][/\ \A p \in Procs :
             AllocateReturns(p) =>
                 /\ KeyBare(resp'[p].ip) \notin DOMAIN store
                 /\ KeyBare(resp'[p].ip) \in DOMAIN store'
                 /\ store'[KeyBare(resp'[p].ip)].source = "api-allocate"
       /\ \A k \in (DOMAIN store') \ (DOMAIN store) :
             store'[k].source = "api-allocate" =>
                 /\ (DOMAIN store') \ (DOMAIN store) = {k}
                 /\ \E p \in Procs :
                       /\ AllocateReturns(p)
                       /\ req'[p].pc = "done"
                       /\ KeyBare(resp'[p].ip) = k]_vars

\* one call answered 200 and its record is in the store; another call
\* submitted a claim and answered an error
C11_Witness ==
    \E p, q \in Procs :
        /\ req[p].op = "allocate" /\ resp[p].code = 200
        /\ KeyBare(resp[p].ip) \in DOMAIN store
        /\ store[KeyBare(resp[p].ip)].source = "api-allocate"
        /\ req[q].op = "allocate" /\ req[q].pc = "done"
        /\ req[q].tries > 0 /\ resp[q].code \in {400, 500}

\* C12: a /release that runs alone against a reachable store deletes
\* /vlan/ip/<bare> and /vlan/ip/<bare>/<prefix of SUBNET>: after it neither
\* key is in the store, and it answers 200 if one of the two existed and 404
\* if neither did.
C12_ReleaseDeletesBoth ==
    [][\A p \in Procs :
          (/\ req[p].op = "release" /\ req[p].pc \in {"del_bare", "del_old"}
           /\ solo[p] /\ etcdUp[req[p].conn]
           /\ req'[p] # req[p]) =>
              LET key_bare == KeyBare(req[p].bare)
                  key_old_cidr == KeyOldCidr(req[p].bare, req[p].ip_net.prefixlen)
              IN  /\ req[p].pc = "del_bare" =>
                        /\ req'[p].deleted_any = (key_bare \in DOMAIN store)
                        /\ DOMAIN store' = (DOMAIN store) \ {key_bare}
                  /\ req[p].pc = "del_old" =>
                        /\ key_bare \notin DOMAIN store'
                        /\ key_old_cidr \notin DOMAIN store'
                        /\ resp'[p].code =
                              IF req[p].deleted_any \/ key_old_cidr \in DOMAIN store
                              THEN 200 ELSE 404]_vars

\* the only request of the run released 10.0.0.2, stored under the old key
\* style only, and emptied the store
C12_Witness ==
    \E p \in Procs :
        /\ ops = 1
        /\ req[p].op = "release" /\ req[p].pc = "done"
        /\ resp[p].code = 200 /\ resp[p].ip = IpStr(TenNet + 2)
        /\ DOMAIN store = {}

\* C13 (as claimed): after a /release that ran alone and answered 200 for x,
\* no key of the store denotes x.
C13_ReleasedReturnsToPool ==
    [][\A p \in Procs :
          (/\ req[p].op = "release" /\ req[p].pc = "del_old"
           /\ solo[p]
           /\ resp'[p].code = 200) =>
              resp'[p].ip \notin Keyed(store')]_vars

\* C14: a /release of x that runs alone, right after a /release of x that ran
\* alone and answered 200 or 404, leaves the store as it is and, when the
\* store is reachable, answers 404.
C14_ReleaseIdempotent ==
    [][\A p, q \in Procs :
          (/\ p # q
           /\ req[p].op = "release" /\ req[p].pc = "done" /\ solo[p]
           /\ resp[p].code \in {200, 404}
           /\ req[q].op = "release" /\ req[q].pc \in {"del_bare", "del_old"}
           /\ solo[q]
           /\ req[q].seq = req[p].seq + 1
           /\ req[q].bare = normalize_ip(req[p].ip_address)
           /\ req'[q] # req[q]) =>
              /\ store' = store
              /\ (req[q].pc = "del_old" /\ etcdUp[req[q].conn]) =>
                    resp'[q].code = 404]_vars

\* a /release answered 200 and the next request, a /release of the same
\* address, answered 404
C14_Witness ==
    \E p, q \in Procs :
        /\ p # q
        /\ req[p].op = "release" /\ req[p].pc = "done" /\ solo[p]
        /\ resp[p].code = 200
        /\ req[q].op = "release" /\ req[q].pc = "done" /\ solo[q]
        /\ req[q].seq = req[p].seq + 1
        /\ normalize_ip(req[q].ip_address) = resp[p].ip
        /\ resp[q].code = 404

\* the address a request text names: its first dotted quad
Denoted(text) ==
    LET at == {i \in 1..Len(text) : text[i][1] = "ip"}
    IN  IF at = {} THEN <<>> ELSE <<text[SetMin(at)]>>

\* C15: a /release that names the network address, the broadcast address or
\* the first host of SUBNET answers 403 at once and leaves the store as it
\* is, whatever the store holds and whether or not it can be reached.
C15_ReservedRelease ==
    [][\A p \in Procs :
          (/\ req'[p] # req[p]
           /\ req[p].pc \in {"idle", "done"}
           /\ req'[p].op = "release"
           /\ ip_network(SUBNET).ok
           /\ Denoted(req'[p].ip_address) \in PolicyOf(ip_network(SUBNET))) =>
              /\ resp'[p].code = 403
              /\ req'[p].pc = "done"
              /\ store' = store]_vars

\* a /release of a reserved address that has a key answered 403 while no
\* etcd endpoint was answering
C15_Witness ==
    \E p \in Procs :
        /\ req[p].op = "release" /\ req[p].pc = "done"
        /\ resp[p].code = 403
        /\ Denoted(req[p].ip_address) \in Keyed(store)
        /\ \A e \in ETCD_ENDPOINTS : ~etcdUp[e]

\* C16 (as claimed): the counts of an exhaustion answer sum to the size of
\* the host range of the subnet (the number of hosts, or the number of
\* addresses).
C16_ExhaustionCounts ==
    \A p \in Procs :
        (/\ req[p].op = "allocate" /\ req[p].pc = "done"
         /\ resp[p].code = 400
         /\ resp[p].error = "No IPs available in subnet") =>
            resp[p].Used + resp[p].Reserved \in
                {Cardinality(hosts(req[p].ip_net)), 2 ^ (32 - req[p].ip_net.prefixlen)}

\* is the text one dotted quad
IsDottedQuad(text) == Len(text) = 1 /\ text[1][1] = "ip"

\* C17 (as claimed): a /release whose ip_address is given and does not
\* normalise to a dotted quad answers 400 (unless the configuration or the
\* store fails with 500).
C17_MalformedReleaseRejected ==
    \A p \in Procs :
        (/\ req[p].op = "release" /\ req[p].pc = "done"
         /\ req[p].ip_address # <<>>
         /\ ~IsDottedQuad(normalize_ip(req[p].ip_address))
         /\ resp[p].code # 500) =>
            resp[p].code = 400

\* C18: no step changes the value stored under a key that exists before and
\* after it: values appear with their key and disappear with it.
C18_RecordsImmutable ==
    [][\A k \in (DOMAIN store) \cap (DOMAIN store') : store'[k] = store[k]]_vars

\* a call lost a claim transaction against a record that another call had
\* imported from the cloud after the first had read the store
C18_Witness ==
    \E p \in Procs :
        /\ req[p].op = "allocate" /\ req[p].pc = "claim"
        /\ req[p].tries > 0
        /\ KeyBare(IpStr(req[p].cursor)) \in DOMAIN store
        /\ KeyBare(IpStr(req[p].cursor)) \notin req[p].seen
        /\ store[KeyBare(IpStr(req[p].cursor))].source = "linode-sync"

\* C19 (as claimed): a pass of the retry loop that receives a 429 is followed
\* by another request, and leaves the attempt counter (the attempts left and
\* the exponent of the next backoff) as it was.
C19_RateLimitKeepsBudget ==
    [][(/\ http.pc = "request"
        /\ http' # http
        /\ http'.response.exc = ""
        /\ http'.response.status_code = 429) =>
            /\ http'.pc = "request"
            /\ http'.attempt = http.attempt]_vars

\* C20: every pass of the retry loop issues one request and the requests
\* issued never exceed `retries`; the loop goes on only while requests are
\* left, and otherwise the call has returned, with the parsed body or with
\* None; a 200 ends the call at once, with None when its body does not parse.
C20_RetryTerminates ==
    [][(http.pc = "request" /\ http' # http) =>
          /\ http'.requests = http.requests + 1
          /\ http'.requests <= http'.retries
          /\ http'.retries = http.retries
          /\ http'.pc \in {"request", "done"}
          /\ http'.pc = "request" =>
                http'.requests < http'.retries /\ http'.result = "none"
          /\ http'.pc = "done" => http'.result \in {"json", "None"}
          /\ (http'.response.exc = "" /\ http'.response.status_code = 200) =>
                /\ http'.pc = "done"
                /\ http'.result = IF http'.response.json_ok THEN "json" ELSE "None"
          /\ http'.result = "json" =>
                /\ http'.response.exc = ""
                /\ http'.response.status_code = 200
                /\ http'.response.json_ok]_vars

\* a call with retries = 3 returned None after three requests, one of them
\* answered 429
C20_Witness ==
    /\ http.pc = "done" /\ http.result = "None"
    /\ http.retries = 3 /\ http.requests = 3
    /\ \E i \in 1..Len(http.slept) : http.slept[i].why = "Retry-After"
    /\ \E i \in 1..Len(http.slept) : http.slept[i].why = "backoff"

\* C21: the inventory cache honours its TTL.  A read made less than
\* ttl_seconds after the last write returns the cached list, issues no HTTP
\* call and leaves the cache alone; a read made ttl_seconds or more after it
\* misses and, the credential being there, walks the inventory from page 1;
\* the write of a walk stores the list returned and the time of the walk;
\* with a TTL of 0 no read is served from the cache
C21_CacheHonoursTtl ==
    fetched.outcome # "none" =>
        LET c == fetched.before
            age == fetched.at - c.timestamp
            walked == fetched.calls # <<>> /\ fetched.calls[1] = <<"instances", 1, 0>>
        IN  /\ (c.has /\ age < c.ttl_seconds) =>
                  /\ fetched.outcome = "cached"
                  /\ fetched.ips = c.ips
                  /\ fetched.calls = <<>>
                  /\ VLAN_IP_CACHE = c
            /\ (~c.has \/ age >= c.ttl_seconds) =>
                  /\ fetched.outcome # "cached"
                  /\ fetched.token_ok => walked
            /\ walked =>
                  /\ VLAN_IP_CACHE.has
                  /\ VLAN_IP_CACHE.timestamp = fetched.at
                  /\ VLAN_IP_CACHE.ips = fetched.ips
                  /\ VLAN_IP_CACHE.ttl_seconds = c.ttl_seconds
            /\ c.ttl_seconds = 0 =>
                  /\ fetched.outcome # "cached"
                  /\ fetched.token_ok => walked

\* a read served from a cache one second old under a TTL of two seconds,
\* while the cloud holds other addresses than the cached ones
C21_Witness ==
    /\ fetched.outcome = "cached"
    /\ fetched.before.ttl_seconds = 2
    /\ fetched.at - fetched.before.timestamp = 1
    /\ fetched.ips # <<>>
    /\ fetched.calls = <<>>
    /\ fetched.inv = InvEmpty

\* the instance-list requests among the calls of a walk
IsPageRequest(call) == call[1] = "instances"

PageRequests(calls) == SelectSeq(calls, IsPageRequest)

\* C30: the pagination loop ends.  A walk requests the instance pages 1, 2,
\* ... in order, at most as many as the first page says there are; a page
\* that fails is the last one requested, and without a failed page every
\* page is requested
C30_PaginationTerminates ==
    (fetched.outcome \in {"failed", "complete"} /\ fetched.token_ok) =>
        LET pg == PageRequests(fetched.calls)
            pages == Len(fetched.inv)
        IN  /\ Len(pg) >= 1
            /\ \A i \in 1..Len(pg) : pg[i] = <<"instances", i, 0>>
            /\ Len(pg) <= pages
            /\ \A i \in 1..Len(pg) : pg[i] \in fetched.fails => i = Len(pg)
            /\ (\A i \in 1..Len(pg) : pg[i] \notin fetched.fails) => Len(pg) = pages

\* a walk of three pages whose second page failed: the third is not asked for
C30_Witness ==
    /\ fetched.outcome = "failed"
    /\ fetched.token_ok
    /\ Len(fetched.inv) = 3
    /\ fetched.fails = {<<"instances", 2, 0>>}
    /\ PageRequests(fetched.calls) = << <<"instances", 1, 0>>, <<"instances", 2, 0>> >>
    /\ fetched.ips = <<IpStr(TenNet + 2)>>


\* C24: reserved_set of a subnet is its network address, its broadcast
\* address and, for a prefix of 30 or less, the lowest host address;
\* a /24 at x.168.0.0 gives {x.168.0.0, x.168.0.1, x.168.0.255}; for a
\* prefix of 31 or more it is exactly {network, broadcast}
C24_ReservedPolicy ==
    fn.f = "reserved_set" =>
        LET network == fn.net.net
            broadcast == fn.net.net + (2 ^ (32 - fn.net.prefixlen)) - 1
        IN  /\ fn.net.prefixlen <= 30 =>
                  fn.set = {<<IpTok(network)>>, <<IpTok(network + 1)>>,
                            <<IpTok(broadcast)>>}
            /\ fn.net.prefixlen >= 31 =>
                  fn.set = {<<IpTok(network)>>, <<IpTok(broadcast)>>}
            /\ fn.arg = <<IpTok(Net168), SLASH, NumTok(24)>> =>
                  fn.set = {<<IpTok(Net168)>>, <<IpTok(Net168 + 1)>>,
                            <<IpTok(Net168 + 255)>>}

\* reserved_set of a /31 whose two addresses are both in the answer
C24_Witness ==
    /\ fn.f = "reserved_set"
    /\ fn.net.prefixlen = 31
    /\ fn.net.net = Net168 + 76
    /\ Cardinality(fn.set) = 2

\* C25: normalize_ip maps ip, ip/24 and both with blanks around them to the
\* bare ip, keeps only what stands before the first "/", without blanks at
\* either end, maps the empty text to the empty text, and is idempotent
C25_NormalizeIdempotent ==
    fn.f = "normalize_ip" =>
        LET ip == <<IpTok(Net168 + 9)>>
            cidr == <<IpTok(Net168 + 9), SLASH, NumTok(24)>>
            slashes == {i \in 1..Len(fn.arg) : fn.arg[i] = SLASH}
            cut == IF slashes = {} THEN Len(fn.arg) + 1
                   ELSE CHOOSE i \in slashes : \A j \in slashes : i <= j
            kept == {i \in 1..(cut - 1) : fn.arg[i] # SPACE}
        IN  /\ fn.again = fn.text
            /\ fn.arg \in {ip, cidr, <<SPACE>> \o ip \o <<SPACE>>,
                           <<SPACE>> \o cidr \o <<SPACE>>} => fn.text = ip
            /\ fn.arg = <<>> => fn.text = <<>>
            /\ \A i \in 1..Len(fn.text) : fn.text[i] # SLASH
            /\ fn.text # <<>> =>
                  fn.text[1] # SPACE /\ fn.text[Len(fn.text)] # SPACE
            /\ kept = {} => fn.text = <<>>
            /\ kept # {} =>
                  \E a \in kept, b \in kept :
                      /\ \A i \in kept : a <= i /\ i <= b
                      /\ fn.text = SubSeq(fn.arg, a, b)

\* " ip /24": the blank before the "/" goes with the suffix
C25_Witness ==
    /\ fn.f = "normalize_ip"
    /\ fn.arg = <<SPACE, IpTok(Net168 + 9), SPACE, SLASH, NumTok(24)>>
    /\ fn.text = <<IpTok(Net168 + 9)>>
    /\ fn.again = fn.text

\* C22: refresh_detail maps every job status to exactly one of Running,
\* Succeeded and Failed: Failed exactly when some condition of type Failed
\* has status True, Succeeded exactly when the completion time is there and
\* no such condition is, Running otherwise; and a pod log that cannot be read
\* does not fail the request
C22_RefreshStatus ==
    job.pc = "done" =>
        LET st == job.cluster.status
            failed == \E i \in 1..Len(st.conditions) :
                          /\ st.conditions[i].type = "Failed"
                          /\ st.conditions[i].status = "True"
            completed == st.completion_time # 0
            r == job.response
        IN  /\ (job.cluster.found /\ job.cluster.listable) => r.code = 200
            /\ r.code = 200 =>
                  /\ r.status \in {"Running", "Succeeded", "Failed"}
                  /\ r.status = "Failed" <=> failed
                  /\ r.status = "Succeeded" <=> (completed /\ ~failed)
                  /\ r.status = "Running" <=> (~completed /\ ~failed)

\* a job with a completion time and a Failed condition is Failed, and the
\* answer is 200 although the log of its pod could not be read
C22_Witness ==
    /\ job.pc = "done"
    /\ job.cluster.log_raises
    /\ job.cluster.status.completion_time # 0
    /\ job.response.code = 200
    /\ job.response.status = "Failed"
    /\ job.response.podName = "refresh-x1-abc"
    /\ job.response.logs = ""

\* the messages of the answers given before the store is contacted
BeforeConnecting ==
    {"Subnet not provided", "Invalid subnet format", "IP address not provided",
     "Missing REGION or SUBNET env variable", "Invalid SUBNET env variable",
     "reserved and cannot be released"}

\* C23: a request that goes to the store uses the first endpoint of the list
\* whose status() succeeds, and keeps it until it ends; a request that starts
\* while no endpoint answers ends at once without a write, with 500 unless
\* its input was turned down before the store was contacted
C23_EndpointSelection ==
    [][\A p \in Procs :
          LET wasIdle == req[p].pc \in {"idle", "done"}
              isIdle == req'[p].pc \in {"idle", "done"}
          IN  /\ (wasIdle /\ ~isIdle) =>
                    /\ req'[p].conn \in DOMAIN etcdUp
                    /\ etcdUp[req'[p].conn]
                    /\ \A e \in DOMAIN etcdUp : e < req'[p].conn => ~etcdUp[e]
              /\ (~wasIdle /\ ~isIdle) => req'[p].conn = req[p].conn
              /\ (wasIdle /\ req'[p] # req[p] /\ \A e \in DOMAIN etcdUp : ~etcdUp[e]) =>
                    /\ isIdle
                    /\ store' = store
                    /\ resp'[p].code # 200
                    /\ resp'[p].error \notin BeforeConnecting => resp'[p].code = 500]_vars

\* a request at work on the second endpoint, the first one not answering
\* again yet
C23_Witness ==
    \E p \in Procs :
        /\ req[p].pc \notin {"idle", "done"}
        /\ req[p].conn = 2
        /\ ~etcdUp[1]

\* the addresses /allocate-ip has answered with 200 in the requests of log
SqlAllocated(log) ==
    {log[i].ip_address : i \in {j \in 1..Len(log) :
                                  log[j].op = "allocate-ip" /\ log[j].code = 200}}

\* C26: in the SQLite-backed service an address that /allocate-ip returned
\* with 200 can be released: a /release of it answers 200 and leaves its row
\* with assigned = 0
C26_AllocatedCanBeReleased ==
    [][(/\ Len(sql'.log) = Len(sql.log) + 1
        /\ sql'.log[Len(sql'.log)].op = "release"
        /\ sql'.log[Len(sql'.log)].ip_address \in SqlAllocated(sql.log)) =>
            LET e == sql'.log[Len(sql'.log)]
            IN  /\ e.code = 200
                /\ \E i \in 1..Len(sql'.table) :
                      /\ sql'.table[i].ip_address = e.ip_address
                      /\ sql'.table[i].assigned = 0]_vars

\* an address allocated, released and allocated again
C26_Witness ==
    /\ Len(sql.log) = 3
    /\ sql.log[1] = [op |-> "allocate-ip", ip_address |-> <<IpTok(TenNet + 2)>>, code |-> 200]
    /\ sql.log[2] = [op |-> "release", ip_address |-> <<IpTok(TenNet + 2)>>, code |-> 200]
    /\ sql.log[3] = sql.log[1]

\* C27: in the SQLite-backed service, when sync_with_linode has run (at
\* start-up or for /vlan-attachment) every address of an instance's ipv4
\* list has a row with assigned = 1
C27_SyncMarksAssigned ==
    sql.synced =>
        \A ip \in sql.ipv4 :
            \E i \in 1..Len(sql.table) :
                /\ sql.table[i].ip_address = ip
                /\ sql.table[i].assigned = 1

\* C28: an import transaction that fails during /allocate, because its
\* compare fails or because the store raises, does not end the request and
\* does not free the address: each pass of the sync loop leaves the request
\* running, unanswered and with the same cloud-observed addresses, and the
\* request never answers 200 with one of them
C28_FailedImportTolerated ==
    [][\A p \in Procs :
          /\ (req[p].pc = "sync" /\ req'[p] # req[p]) =>
                /\ req'[p].pc \in {"sync", "claim"}
                /\ resp'[p] = resp[p]
                /\ req'[p].linode_assigned_bare = req[p].linode_assigned_bare
                /\ req'[p].conn = req[p].conn
          /\ (req[p].pc = "claim" /\ req'[p].pc = "done" /\ resp'[p].code = 200) =>
                resp'[p].ip \notin req[p].linode_assigned_bare]_vars

\* a request answered 200 after a complete walk although an address bound at
\* the cloud has no key: its import failed (nothing was ever released)
C28_Witness ==
    \E p \in Procs :
        /\ req[p].op = "allocate"
        /\ req[p].pc = "done"
        /\ resp[p].code = 200
        /\ req[p].inventory = "complete"
        /\ ~released
        /\ \E x \in CloudBound(cloud) :
              /\ x \notin BareOfKeys(DOMAIN store)
              /\ x # resp[p].ip

\* C29: a /release of x changes no key but /vlan/ip/<x> and
\* /vlan/ip/<x>/<prefix of SUBNET>, and never asks the cloud for the
\* inventory: no step of the request fetches, reads or writes the inventory
\* cache
C29_ReleaseTouchesOnlyItsKeys ==
    [][\A p \in Procs :
          (req'[p].op = "release" /\ req'[p] # req[p]) =>
              LET deleting == req[p].pc \in {"del_bare", "del_old"}
                  own == IF deleting
                         THEN {req[p].bare,
                               req[p].bare \o <<SLASH, NumTok(req[p].ip_net.prefixlen)>>}
                         ELSE {}
              IN  /\ \A k \in (DOMAIN store \cup DOMAIN store') \ own :
                        /\ k \in DOMAIN store
                        /\ k \in DOMAIN store'
                        /\ store'[k] = store[k]
                  /\ VLAN_IP_CACHE' = VLAN_IP_CACHE
                  /\ req'[p].pc \in {"del_bare", "del_old", "done"}
                  /\ req'[p].inventory = "none"]_vars

\* a /release answered 200 that left the key of another address in place
C29_Witness ==
    \E p \in Procs :
        /\ req[p].op = "release"
        /\ req[p].pc = "done"
        /\ resp[p].code = 200
        /\ \E k \in DOMAIN store : <<k[1]>> # resp[p].ip

\* C36: the inventory cache only holds the result of a complete walk: a walk
\* in which an issued call failed (an instance page, a config list or a
\* config view) leaves the cache as it was
C36_CacheOnlyComplete ==
    (/\ fetched.outcome \in {"failed", "complete"}
     /\ \E i \in 1..Len(fetched.calls) : fetched.calls[i] \in fetched.fails) =>
        VLAN_IP_CACHE = fetched.before

\* C37: in the SQLite-backed service no two /allocate-ip requests are
\* answered 200 with the same address unless a /release of that address was
\* answered 200 between them
C37_SqlNoDoubleAllocation ==
    \A i \in 1..Len(sql.log), j \in 1..Len(sql.log) :
        (/\ i < j
         /\ sql.log[i].op = "allocate-ip" /\ sql.log[i].code = 200
         /\ sql.log[j].op = "allocate-ip" /\ sql.log[j].code = 200
         /\ sql.log[i].ip_address = sql.log[j].ip_address) =>
            \E m \in (i + 1)..(j - 1) :
                /\ sql.log[m].op = "release"
                /\ sql.log[m].code = 200
                /\ sql.log[m].ip_address = sql.log[i].ip_address

\* C38: in the SQLite-backed service an /allocate-ip that is answered while
\* the table holds a row with assigned = 0 whose address is not in use at
\* Linode is answered 200 with an address
C38_SqlFreeAddressIsGiven ==
    [][(/\ Len(sql'.log) = Len(sql.log) + 1
        /\ sql'.log[Len(sql'.log)].op = "allocate-ip"
        /\ \E i \in 1..Len(sql.table) :
              /\ sql.table[i].assigned = 0
              /\ sql.table[i].ip_address \notin sql.listed) =>
            /\ sql'.log[Len(sql'.log)].code = 200
            /\ sql'.log[Len(sql'.log)].ip_address # <<>>]_vars

C32_AllocatedCanBeReleased ==
    \A p, q \in Procs :
        (/\ req[q].op = "allocate" /\ req[q].pc = "done" /\ resp[q].code = 200
         /\ req[p].op = "release" /\ req[p].pc = "done"
         /\ req[p].seq = req[q].seq + 1
         /\ solo[p] /\ solo[q]
         /\ Denoted(req[p].ip_address) = resp[q].ip
         /\ resp[p].error \notin {"Release failed", "Unexpected error"}) =>
            resp[p].code = 200

\* C33: of two /release requests for the same address, with no /allocate
\* around, at most one is answered 200
C33_OneReleaseSucceeds ==
    \A p, q \in Procs :
        (/\ p # q
         /\ req[p].op = "release" /\ req[p].pc = "done"
         /\ req[q].op = "release" /\ req[q].pc = "done"
         /\ Denoted(req[p].ip_address) = Denoted(req[q].ip_address)
         /\ resp[p].code = 200) =>
            resp[q].code # 200

\* C34: an /allocate ends under any contention: every claim transaction is
\* on a host above the one tried before, so each host is tried at most once,
\* in ascending order, and the transactions of a request never outnumber
\* the hosts of its subnet; the request ends with 200, 400 or 500
C34_AllocateTerminates ==
    [][\A p \in Procs :
          (req[p].op = "allocate" /\ req[p].pc = "claim" /\ req'[p] # req[p]) =>
              LET n == 2 ^ (32 - req[p].ip_net.prefixlen) IN
              /\ req'[p].pc \in {"claim", "done"}
              /\ req'[p].tries <= req[p].tries + 1
              /\ req'[p].tries <= n
              /\ req'[p].pc = "claim" =>
                    /\ req'[p].tries = req[p].tries + 1
                    /\ req'[p].cursor > req[p].cursor
                    /\ req'[p].cursor < req[p].ip_net.net + n
              /\ req'[p].pc = "done" => resp'[p].code \in {200, 400, 500}
              /\ resp'[p].code = 200 =>
                    /\ resp'[p].ip[1][2] > req[p].cursor
                    /\ req'[p].tries = req[p].tries + 1]_vars

\* a request that lost the claim on the only host left and was then
\* answered that the subnet is exhausted
C34_Witness ==
    \E p \in Procs :
        /\ req[p].op = "allocate"
        /\ req[p].pc = "done"
        /\ req[p].tries = 1
        /\ resp[p].code = 400
        /\ resp[p].error = "No IPs available in subnet"

\* C35: for every record written by the service (source api-allocate or
\* linode-sync) the address of the key lies inside the CIDR of the record's
\* subnet field
C35_RecordInsideSubnet ==
    \A k \in DOMAIN store :
        (store[k].source \in {"api-allocate", "linode-sync"} /\ k[1][1] = "ip") =>
            LET a == k[1][2]
                sn == store[k].subnet
                size == 2 ^ (32 - sn[3][2])
            IN  sn[1][2] <= a /\ a < sn[1][2] + size

====
